---------------------------- MODULE Spec2Model ----------------------------
(*************************************************************************)
(* State-machine model of phylogeny::PhylogenicTree<GENOME>              *)
(* (src/src/core/phylogenictree.hpp).                                    *)
(*                                                                       *)
(* Node_ptr values are positions in the registry: makeNode is the only   *)
(* allocator and it pushes every node it allocates onto _nodes, which    *)
(* never shrinks, so the k-th allocated node is _nodes[k-1].  Sequences  *)
(* are 1-based here: the C++ expression _nodes[i] is nodes[i + 1], and   *)
(* the null pointer is 0.                                                *)
(*                                                                       *)
(* Compatibility scores are fixed-point: the integer c stands for the    *)
(* float c / CScale.  Thresholds are rationals Num / Den.                *)
(*************************************************************************)
EXTENDS Integers, Sequences, FiniteSets, TLC

VARIABLES
  nodes,        \* std::vector<Node_ptr> _nodes, with the nodes it points to
  root,         \* Node_ptr _root
  nextNodeID,   \* NodeID _nextNodeID
  idToSpecies,  \* std::map<uint, NodeID> _idToSpecies
  hybrids,      \* uint _hybrids
  step,         \* uint _step
  config,       \* the PTreeConfig values and the build's assert setting
  doc,          \* the document written by the last to_json, if any
  born,         \* number of genomes the simulation has produced so far
  now,          \* the largest step value the simulation has passed so far
  running,      \* FALSE once an assert has terminated the process
  last          \* the last event: its inputs and its outcome

vars == <<nodes, root, nextNodeID, idToSpecies, hybrids, step, config, doc,
          born, now, running, last>>

-----------------------------------------------------------------------------
(* Bounds of the model *)

MaxGenomes == 3        \* genomes the simulation produces
MaxStep == 1           \* last simulation step
MaxBirths == 4         \* genomes of a simulation that only admits

(* Input domains *)

\* the births the simulation hands over: the coordinate x and the genome's
\* content, as far as distance reads it
Births == { [x |-> 0, t |-> 0], [x |-> 1, t |-> 1], [x |-> 2, t |-> 2],
            [x |-> 4, t |-> 4] }

(* Program constants *)

\* NodeID(-1), the all-ones uint, written as the signed value of the same bits
NoID == -1

CScale == 2
compatibilityThreshold == 1
similarityThresholdNum == 1
similarityThresholdDen == 2
outperformanceThresholdNum == 1
outperformanceThresholdDen == 2
simpleNewSpecies == TRUE

-----------------------------------------------------------------------------
(* Small helpers *)

Min(a, b) == IF a < b THEN a ELSE b
Max(a, b) == IF a < b THEN b ELSE a
Abs(a) == IF a < 0 THEN 0 - a ELSE a

\* GENOME: identifier, the content the distance is computed from, and the two
\* parent identifiers (0: hasParent is false).  The copy kept in an enveloppe
\* is cut down to what the tree reads from it: the identifier and the content.
NoGenome == [id |-> 0, t |-> 0, m |-> 0, f |-> 0]
kept(g) == [id |-> g.id, t |-> g.t]

hasMother(g) == g.m # 0
hasFather(g) == g.f # 0

\* distance(g, e), supplied by the genome type
distance(g, e) == Abs(g.t - e.t)

\* g.const_cdata()(d): the genome's distance-to-compatibility response
cdata(g, d) == Max(0, CScale - d)

\* ordered_pair<uint>(a, b)
ordered_pair(a, b) == <<Min(a, b), Max(a, b)>>

\* Values an uninitialized Node::Data field can hold: makeNode sets only
\* firstAppearance and count.
Indeterminate == { [la |-> 0, xmin |-> 0, xmax |-> 0],
                   [la |-> 3, xmin |-> 2, xmax |-> -1] }

\* std::map: a function on its set of keys
EmptyMap == [k \in {} |-> 0]
put(map, key, value) ==
  [k \in DOMAIN map \cup {key} |-> IF k = key THEN value ELSE map[k]]

\* a variant of find that answers a miss with the value operator[] would
\* create
findOrDefault(map, key) == IF key \in DOMAIN map THEN map[key] ELSE 0

\* std::map::find followed by the test against end()
find(map, key) == IF key \in DOMAIN map THEN map[key] ELSE NoID

\* a variant of readInsert that also reads each slot against itself
readInsertUnguarded(map, keys) ==
  LET all == keys \cup { <<p[1], p[1]>> : p \in keys }
  IN  [k \in DOMAIN map \cup all |-> IF k \in DOMAIN map THEN map[k] ELSE 0]

\* std::map::operator[] used to read: a missing key is inserted with float()
readInsert(map, keys) ==
  [k \in DOMAIN map \cup keys |-> IF k \in DOMAIN map THEN map[k] ELSE 0]

-----------------------------------------------------------------------------
(* Node and tree construction *)

\* a variant of makeNode that records no parent
makeNodeOrphan(id, parent, junk) ==
  [ id |-> id,
    parent |-> 0,
    children |-> <<>>,
    enveloppe |-> <<>>,
    distances |-> EmptyMap,
    data |-> [ firstAppearance |-> 0, lastAppearance |-> junk.la, count |-> 0,
               xmin |-> junk.xmin, xmax |-> junk.xmax ] ]

\* std::make_shared<Node>(id, parent) followed by makeNode's two assignments
makeNode(id, parent, junk) ==
  [ id |-> id,
    parent |-> parent,
    children |-> <<>>,
    enveloppe |-> <<>>,
    distances |-> EmptyMap,
    data |-> [ firstAppearance |-> 0, lastAppearance |-> junk.la, count |-> 0,
               xmin |-> junk.xmin, xmax |-> junk.xmax ] ]

-----------------------------------------------------------------------------
(* Compatibility engine *)

\* the score of g against enveloppe point e (lines 255-256)
compatibility(g, e) ==
  LET d == distance(g, e) IN Min(cdata(g, d), cdata(e, d))

\* a variant of matchesSpecies that asks for at least one vote
matchesSpeciesSomeVote(g, species, compatibilities) ==
  LET k == Len(species.enveloppe)
      scores == [i \in 1..k |-> compatibility(g, species.enveloppe[i])]
      matable == Cardinality({i \in 1..k : scores[i] >= compatibilityThreshold})
  IN  [ ok |-> matable > 0
               /\ matable * similarityThresholdDen >= similarityThresholdNum * k,
        compatibilities |-> compatibilities \o scores ]

\* a variant of matchesSpecies that asks for more than the threshold
matchesSpeciesStrict(g, species, compatibilities) ==
  LET k == Len(species.enveloppe)
      scores == [i \in 1..k |-> compatibility(g, species.enveloppe[i])]
      matable == Cardinality({i \in 1..k : scores[i] >= compatibilityThreshold})
  IN  [ ok |-> matable * similarityThresholdDen > similarityThresholdNum * k,
        compatibilities |-> compatibilities \o scores ]

\* matchesSpecies pushes the scores onto the vector it is handed
matchesSpecies(g, species, compatibilities) ==
  LET k == Len(species.enveloppe)
      scores == [i \in 1..k |-> compatibility(g, species.enveloppe[i])]
      matable == Cardinality({i \in 1..k : scores[i] >= compatibilityThreshold})
  IN  [ ok |-> matable * similarityThresholdDen >= similarityThresholdNum * k,
        compatibilities |-> compatibilities \o scores ]

\* lines 289-297: index (0-based) of the first largest of compatibilities[0..k-1]
RECURSIVE mostCompatibleScan(_, _, _, _, _)
mostCompatibleScan(compatibilities, k, i, bestCompability, mostCompatible) ==
  IF i >= k THEN mostCompatible
  ELSE IF bestCompability < compatibilities[i + 1]
       THEN mostCompatibleScan(compatibilities, k, i + 1, compatibilities[i + 1], i)
       ELSE mostCompatibleScan(compatibilities, k, i + 1, bestCompability, mostCompatible)

findMostCompatible(compatibilities, k) ==
  mostCompatibleScan(compatibilities, k, 1, compatibilities[1], 0)

\* lines 305-315: the votes for the incoming genome
countNewIsBest(compatibilities, dist, k, mostCompatible) ==
  Cardinality({ i \in 0..(k - 1) :
                  /\ i # mostCompatible
                  /\ compatibilities[i + 1] < dist[ordered_pair(i, mostCompatible)] })

\* line 318: the genome is inside the enveloppe
unremarkable(newIsBest, k) ==
  newIsBest * outperformanceThresholdDen < outperformanceThresholdNum * (k - 1)

\* a variant of hasRoom that also takes a full enveloppe for one with room
hasRoomWhenFull(species) == Len(species.enveloppe) <= config.enveloppeSize

\* line 276
hasRoom(species) == Len(species.enveloppe) < config.enveloppeSize

\* a variant of updateData that leaves the count alone
updateDataUncounted(data, stp, x) ==
  [ data EXCEPT !.lastAppearance = stp,
                !.xmin = Min(@, x),
                !.xmax = Max(@, x) ]

\* lines 341-344
updateData(data, stp, x) ==
  [ data EXCEPT !.count = @ + 1,
                !.lastAppearance = stp,
                !.xmin = Min(@, x),
                !.xmax = Max(@, x) ]

\* a variant of insertInto that announces the incoming genome before the
\* evicted one
insertIntoEntersFirst(stp, x, g, species, compatibilities) ==
  LET k == Len(species.enveloppe)
      dist == species.distances
  IN  IF hasRoom(species)
      THEN [ node |->
               [ species EXCEPT
                   !.enveloppe = Append(@, kept(g)),
                   !.distances =
                     [ p \in DOMAIN dist \cup { ordered_pair(i, k) : i \in 0..(k - 1) } |->
                         IF p[1] # p[2] /\ p[2] = k THEN compatibilities[p[1] + 1]
                         ELSE dist[p] ],
                   !.data = updateData(@, stp, x) ],
             callbacks |-> << <<"enters", species.id, g.id>> >> ]
      ELSE
        LET mostCompatible == findMostCompatible(compatibilities, k)
            others == (0..(k - 1)) \ {mostCompatible}
            slots == { ordered_pair(i, mostCompatible) : i \in others }
            read == readInsert(dist, slots)
            newIsBest == countNewIsBest(compatibilities, read, k, mostCompatible)
        IN  IF unremarkable(newIsBest, k)
            THEN [ node |-> [ species EXCEPT !.distances = read,
                                             !.data = updateData(@, stp, x) ],
                   callbacks |-> <<>> ]
            ELSE [ node |->
                     [ species EXCEPT
                         !.enveloppe = [ @ EXCEPT ![mostCompatible + 1] = kept(g) ],
                         !.distances =
                           [ p \in DOMAIN read |->
                               IF p \in slots
                               THEN compatibilities[
                                      (IF p[1] = mostCompatible THEN p[2] ELSE p[1]) + 1]
                               ELSE read[p] ],
                         !.data = updateData(@, stp, x) ],
                   callbacks |->
                     << <<"enters", species.id, g.id>>,
                        <<"leaves", species.id, species.enveloppe[mostCompatible + 1].id>> >> ]

\* insertInto: the node after the insertion and the callbacks fired, in order
insertInto(stp, x, g, species, compatibilities) ==
  LET k == Len(species.enveloppe)
      dist == species.distances
  IN  IF hasRoom(species)
      THEN [ node |->
               [ species EXCEPT
                   !.enveloppe = Append(@, kept(g)),
                   !.distances =
                     [ p \in DOMAIN dist \cup { ordered_pair(i, k) : i \in 0..(k - 1) } |->
                         IF p[1] # p[2] /\ p[2] = k THEN compatibilities[p[1] + 1]
                         ELSE dist[p] ],
                   !.data = updateData(@, stp, x) ],
             callbacks |-> << <<"enters", species.id, g.id>> >> ]
      ELSE
        LET mostCompatible == findMostCompatible(compatibilities, k)
            others == (0..(k - 1)) \ {mostCompatible}
            slots == { ordered_pair(i, mostCompatible) : i \in others }
            read == readInsert(dist, slots)
            newIsBest == countNewIsBest(compatibilities, read, k, mostCompatible)
        IN  IF unremarkable(newIsBest, k)
            THEN [ node |-> [ species EXCEPT !.distances = read,
                                             !.data = updateData(@, stp, x) ],
                   callbacks |-> <<>> ]
            ELSE [ node |->
                     [ species EXCEPT
                         !.enveloppe = [ @ EXCEPT ![mostCompatible + 1] = kept(g) ],
                         !.distances =
                           [ p \in DOMAIN read |->
                               IF p \in slots
                               THEN compatibilities[
                                      (IF p[1] = mostCompatible THEN p[2] ELSE p[1]) + 1]
                               ELSE read[p] ],
                         !.data = updateData(@, stp, x) ],
                   callbacks |->
                     << <<"leaves", species.id, species.enveloppe[mostCompatible + 1].id>>,
                        <<"enters", species.id, g.id>> >> ]

-----------------------------------------------------------------------------
(* Tree manager: genome admission *)

\* lines 221-227: the first child of `species` that g matches (0: none), and
\* the vector of scores as the calls have left it
RECURSIVE firstMatchingChild(_, _, _, _, _)
firstMatchingChild(ns, g, children, i, compatibilities) ==
  IF i > Len(children) THEN [ found |-> 0, compatibilities |-> compatibilities ]
  ELSE LET m == matchesSpecies(g, ns[children[i]], compatibilities)
       IN  IF m.ok THEN [ found |-> children[i], compatibilities |-> m.compatibilities ]
           ELSE firstMatchingChild(ns, g, children, i + 1, m.compatibilities)

\* a variant of Admitted that indexes the genome under the root's id
AdmittedUnderRoot(ns, nid, target, x, g, compatibilities, created) ==
  LET ins == insertInto(step, x, g, ns[target], compatibilities)
  IN  [ nodes |-> [ ns EXCEPT ![target] = ins.node ],
        nextNodeID |-> nid,
        idToSpecies |-> put(idToSpecies, g.id, ns[root].id),
        ret |-> ns[target].id,
        target |-> target,
        created |-> created,
        compatibilities |-> compatibilities,
        callbacks |-> ins.callbacks \o
                      (IF created THEN << <<"new", ns[target].id, 0>> >> ELSE <<>>) ]

\* what an admission that reached a node leaves behind
Admitted(ns, nid, target, x, g, compatibilities, created) ==
  LET ins == insertInto(step, x, g, ns[target], compatibilities)
  IN  [ nodes |-> [ ns EXCEPT ![target] = ins.node ],
        nextNodeID |-> nid,
        idToSpecies |-> put(idToSpecies, g.id, ns[target].id),
        ret |-> ns[target].id,
        target |-> target,
        created |-> created,
        compatibilities |-> compatibilities,
        callbacks |-> ins.callbacks \o
                      (IF created THEN << <<"new", ns[target].id, 0>> >> ELSE <<>>) ]

\* a variant of newSpecies that puts the new species first among the children
newSpeciesFirst(species, x) ==
  LET made == makeNode(nextNodeID, species, CHOOSE j \in Indeterminate : TRUE)
      subspecies == [ made EXCEPT !.data.firstAppearance = step,
                                  !.data.xmin = x,
                                  !.data.xmax = x ]
  IN  Append([ nodes EXCEPT ![species].children = << Len(nodes) + 1 >> \o @ ],
             subspecies)

\* lines 231-235: the new singleton species under `species`
newSpecies(species, x) ==
  LET made == makeNode(nextNodeID, species, CHOOSE j \in Indeterminate : TRUE)
      subspecies == [ made EXCEPT !.data.firstAppearance = step,
                                  !.data.xmin = x,
                                  !.data.xmax = x ]
  IN  Append([ nodes EXCEPT ![species].children = Append(@, Len(nodes) + 1) ],
             subspecies)

\* NodeID addGenome (int x, const GENOME &g, Node_ptr species)
addGenome(x, g, species) ==
  LET own == matchesSpecies(g, nodes[species], <<>>)
  IN  IF own.ok
      THEN Admitted(nodes, nextNodeID, species, x, g, own.compatibilities, FALSE)
      ELSE
        LET sub == firstMatchingChild(nodes, g, nodes[species].children, 1,
                                      own.compatibilities)
        IN  IF sub.found # 0
            THEN Admitted(nodes, nextNodeID, sub.found, x, g, sub.compatibilities, FALSE)
            ELSE Admitted(newSpecies(species, x), nextNodeID + 1, Len(nodes) + 1,
                          x, g, sub.compatibilities, TRUE)

\* line 64: assert(PTreeConfig::ignoreHybrids() || mID == pID)
hybridAssertHolds(mID, pID) == config.ignoreHybrids \/ mID = pID

\* lines 58-59: the genome is handed to the root
startsAtRoot(g) == ~hasFather(g) \/ ~hasMother(g)

\* line 65
countHybrid(mID, pID) == IF mID # pID THEN hybrids + 1 ELSE hybrids

\* a variant of coupleSpecies that hands the couple to the father's species
coupleSpeciesFather(mID, pID) == pID

\* lines 67 and 73: the species both kinds of couple are handed to
coupleSpecies(mID, pID) == mID

\* an admission that reaches no node
notAdmitted ==
  [ nodes |-> nodes, nextNodeID |-> nextNodeID, idToSpecies |-> idToSpecies,
    ret |-> NoID, target |-> 0, created |-> FALSE, compatibilities |-> <<>>,
    callbacks |-> <<>> ]

\* lines 61-81: a genome with both parents
addGenomeOfCouple(x, g) ==
  LET mID == idToSpecies[g.m]
      pID == idToSpecies[g.f]
  IN  IF config.asserts /\ ~hybridAssertHolds(mID, pID)
      THEN [ outcome |-> "abort", start |-> 0, hybrids |-> hybrids, t |-> notAdmitted ]
      ELSE IF mID = pID \/ config.ignoreHybrids
      THEN [ outcome |-> "ok", start |-> coupleSpecies(mID, pID) + 1,
             hybrids |-> countHybrid(mID, pID),
             t |-> addGenome(x, g, coupleSpecies(mID, pID) + 1) ]
      ELSE [ outcome |-> "NoID", start |-> 0, hybrids |-> countHybrid(mID, pID),
             t |-> notAdmitted ]

\* a variant of addGenomeEvent that hands a genome with one parent to that
\* parent's species
addGenomeEventAtParent(x, g) ==
  IF ~hasFather(g) /\ ~hasMother(g)
  THEN [ outcome |-> "ok", start |-> root, hybrids |-> hybrids,
         t |-> addGenome(x, g, root) ]
  ELSE IF ~hasFather(g) \/ ~hasMother(g)
  THEN LET sID == idToSpecies[IF hasMother(g) THEN g.m ELSE g.f]
       IN  [ outcome |-> "ok", start |-> sID + 1, hybrids |-> hybrids,
             t |-> addGenome(x, g, sID + 1) ]
  ELSE addGenomeOfCouple(x, g)

\* NodeID addGenome (int x, const GENOME &g): the outcome ("ok", "NoID", or
\* "abort" when an enabled assert fails), the node the search started at, and
\* the state it leaves
addGenomeEvent(x, g) ==
  IF startsAtRoot(g)
  THEN [ outcome |-> "ok", start |-> root, hybrids |-> hybrids,
         t |-> addGenome(x, g, root) ]
  ELSE addGenomeOfCouple(x, g)

-----------------------------------------------------------------------------
(* Persistence codec.  A JSON array is a sequence; null, which iterates as    *)
(* an empty array, is the empty sequence.                                     *)

JNull == <<>>

\* to_json (json&, const Data&)
dataToJson(d) == << d.firstAppearance, d.lastAppearance, d.count, d.xmin, d.xmax >>

\* a variant of dataFromJson that reads xmin and xmax in the other order
dataFromJsonSwapped(j) ==
  [ firstAppearance |-> j[1], lastAppearance |-> j[2], count |-> j[3],
    xmin |-> j[5], xmax |-> j[4] ]

\* from_json (const json&, Data&)
dataFromJson(j) ==
  [ firstAppearance |-> j[1], lastAppearance |-> j[2], count |-> j[3],
    xmin |-> j[4], xmax |-> j[5] ]

\* iteration order of std::map<ordered_pair<uint>, float> (operator<, lines 126-129)
pairLess(lhs, rhs) ==
  IF lhs[1] # rhs[1] THEN lhs[1] < rhs[1] ELSE lhs[2] < rhs[2]

RECURSIVE inOrder(_)
inOrder(keys) ==
  IF keys = {} THEN <<>>
  ELSE LET first == CHOOSE k \in keys : \A o \in keys \ {k} : pairLess(k, o)
       IN  <<first>> \o inOrder(keys \ {first})

\* lines 377-378: the (slotA, slotB, score) triples
distancesToJson(dist) ==
  LET order == inOrder(DOMAIN dist)
  IN  [ i \in 1..Len(order) |-> << order[i][1], order[i][2], dist[order[i]] >> ]

\* lines 362-363
RECURSIVE distancesFromJson(_, _, _)
distancesFromJson(jd, i, dist) ==
  IF i > Len(jd) THEN dist
  ELSE distancesFromJson(jd, i + 1,
                         put(dist, ordered_pair(jd[i][1], jd[i][2]), jd[i][3]))

\* to_json (json&, const Node&)
RECURSIVE nodeToJson(_, _)
nodeToJson(ns, n) ==
  << ns[n].id,
     dataToJson(ns[n].data),
     ns[n].enveloppe,
     distancesToJson(ns[n].distances),
     [ i \in 1..Len(ns[n].children) |-> nodeToJson(ns, ns[n].children[i]) ] >>

\* to_json (json&, const PhylogenicTree&)
to_json == << step, nodeToJson(nodes, root) >>

\* a node record that is not the five-field array: reading its fields throws
malformed(j) == Len(j) # 5

\* Node_ptr rebuildHierarchy(Node_ptr parent, const json &j), threading the
\* registry and the id counter; ok is FALSE when the call threw
RECURSIVE rebuildHierarchy(_, _, _, _)
RECURSIVE rebuildChildren(_, _, _, _, _)
rebuildHierarchy(st, parent, j, junk) ==
  LET n == Len(st.nodes) + 1
      made == Append(st.nodes, makeNode(st.nextNodeID, parent, junk))
      linked == IF parent # 0
                THEN [ made EXCEPT ![parent].children = Append(@, n) ]
                ELSE made
      after == [ nodes |-> linked, nextNodeID |-> st.nextNodeID + 1, ok |-> TRUE, n |-> n ]
  IN  IF malformed(j) THEN [ after EXCEPT !.ok = FALSE ]
      ELSE LET filled == [ linked EXCEPT ![n].id = j[1],
                                         ![n].data = dataFromJson(j[2]),
                                         ![n].enveloppe = j[3],
                                         ![n].distances = distancesFromJson(j[4], 1, EmptyMap) ]
           IN  rebuildChildren([ after EXCEPT !.nodes = filled ], n, j[5], 1, junk)

rebuildChildren(st, n, jc, i, junk) ==
  IF i > Len(jc) THEN [ st EXCEPT !.n = n ]
  ELSE LET c == rebuildHierarchy(st, n, jc[i], junk)
       IN  IF c.ok THEN rebuildChildren(c, n, jc, i + 1, junk)
           ELSE [ c EXCEPT !.n = n ]

\* from_json (const json&, PhylogenicTree &pt): the fields of pt after the
\* call; ok is FALSE when it threw
from_json(j, pt, junk) ==
  LET r == rebuildHierarchy([ nodes |-> pt.nodes, nextNodeID |-> pt.nextNodeID,
                              ok |-> TRUE, n |-> 0 ], 0, j[2], junk)
  IN  [ pt EXCEPT !.step = j[1],
                  !.nodes = r.nodes,
                  !.nextNodeID = r.nextNodeID,
                  !.root = IF r.ok THEN r.n ELSE @,
                  !.ok = r.ok ]

\* PhylogenicTree(void): the fields of a tree object just constructed
constructed(junk) ==
  [ nodes |-> << makeNode(0, 0, junk) >>, root |-> 1, nextNodeID |-> 1,
    idToSpecies |-> EmptyMap, hybrids |-> 0, step |-> 0, ok |-> TRUE ]


\* the document as written, and the damaged copies a reader can be handed:
\* the root record, or the root's first child record, replaced by null
documents(j) ==
  { j, << j[1], JNull >> } \cup
  ( IF Len(j[2][5]) > 0
    THEN { << j[1], [ j[2] EXCEPT ![5] = [ @ EXCEPT ![1] = JNull ] ] >> }
    ELSE {} )

-----------------------------------------------------------------------------
(* The events *)

\* the mark left in place of a document that has been read, and whether a
\* document is waiting to be read
ReadBack == << JNull >>
pending == Len(doc) = 2

Idle == [ op |-> "new", outcome |-> "ok", g |-> NoGenome, x |-> 0, s |-> 0,
          alivePlants |-> {},
          start |-> 0, target |-> 0, ret |-> NoID, created |-> FALSE,
          compatibilities |-> <<>>, callbacks |-> <<>>,
          before |-> [ step |-> 0, root |-> 0, nodes |-> <<>>, nextNodeID |-> 0 ] ]

\* the configurations a process can be started with: the PTreeConfig values
\* and whether the build keeps its asserts
Configurations ==
  { [ enveloppeSize |-> 1, ignoreHybrids |-> TRUE, asserts |-> TRUE ],
    [ enveloppeSize |-> 2, ignoreHybrids |-> TRUE, asserts |-> TRUE ],
    [ enveloppeSize |-> 2, ignoreHybrids |-> FALSE, asserts |-> TRUE ],
    [ enveloppeSize |-> 2, ignoreHybrids |-> FALSE, asserts |-> FALSE ] }

\* PhylogenicTree(void)
Constructed ==
  /\ \E junk \in Indeterminate :
        /\ nodes = constructed(junk).nodes
        /\ root = constructed(junk).root
        /\ nextNodeID = constructed(junk).nextNodeID
        /\ idToSpecies = constructed(junk).idToSpecies
        /\ hybrids = constructed(junk).hybrids
        /\ step = constructed(junk).step
  /\ doc = <<>>
  /\ born = 0
  /\ now = 0
  /\ running = TRUE
  /\ last = Idle

Init == Constructed /\ config \in Configurations

\* a birth: the simulation hands over a new genome whose parents, if any, it
\* has handed over before
AddGenomeUpTo(limit) ==
  /\ running
  /\ ~pending
  /\ born < limit
  /\ \E b \in Births,
        m \in {0} \cup DOMAIN idToSpecies, f \in {0} \cup DOMAIN idToSpecies :
        LET g == [ id |-> born + 1, t |-> b.t, m |-> m, f |-> f ]
            x == b.x
            e == addGenomeEvent(x, g)
        IN  /\ nodes' = e.t.nodes
            /\ nextNodeID' = e.t.nextNodeID
            /\ idToSpecies' = e.t.idToSpecies
            /\ hybrids' = e.hybrids
            /\ running' = (e.outcome # "abort")
            /\ last' = [ Idle EXCEPT !.op = "addGenome", !.outcome = e.outcome,
                                     !.g = g, !.x = x, !.start = e.start,
                                     !.target = e.t.target, !.ret = e.t.ret,
                                     !.created = e.t.created,
                                     !.compatibilities = e.t.compatibilities,
                                     !.callbacks = e.t.callbacks ]
  /\ born' = born + 1
  /\ UNCHANGED <<root, step, config, doc, now>>

\* a variant of delGenome that stamps the root
delGenomeAtRoot(s, id) ==
  IF id \in DOMAIN idToSpecies
  THEN [ nodes EXCEPT ![root].data.lastAppearance = s ]
  ELSE nodes

AddGenome == AddGenomeUpTo(MaxGenomes)

\* void delGenome (uint step, uint id)
delGenome(s, id) ==
  IF id \in DOMAIN idToSpecies
  THEN [ nodes EXCEPT ![idToSpecies[id] + 1].data.lastAppearance = s ]
  ELSE nodes

DelGenome ==
  /\ running
  /\ doc = <<>>
  /\ \E s \in now..MaxStep, id \in 1..(born + 1) :
        /\ nodes' = delGenome(s, id)
        /\ now' = s
        /\ last' = [ Idle EXCEPT !.op = "delGenome", !.s = s, !.g.id = id ]
  /\ UNCHANGED <<root, nextNodeID, idToSpecies, hybrids, step, config, doc, born,
                 running>>

\* a variant of stepNodes that stamps every species
stepNodesAll(s, alivePlants) ==
  [ i \in 1..Len(nodes) |-> [ nodes[i] EXCEPT !.data.lastAppearance = s ] ]

\* void step (uint step, const std::set<uint> &alivePlants); the ids are
\* ids of the index (_idToSpecies.at)
stepNodes(s, alivePlants) ==
  LET aliveSpecies == { idToSpecies[pid] : pid \in alivePlants }
  IN  [ i \in 1..Len(nodes) |->
          IF (i - 1) \in aliveSpecies
          THEN [ nodes[i] EXCEPT !.data.lastAppearance = s ]
          ELSE nodes[i] ]

Step ==
  /\ running
  /\ doc = <<>>
  /\ \E s \in now..MaxStep, alivePlants \in SUBSET DOMAIN idToSpecies :
        /\ nodes' = stepNodes(s, alivePlants)
        /\ step' = s
        /\ now' = s
        /\ last' = [ Idle EXCEPT !.op = "step", !.s = s,
                                 !.alivePlants = alivePlants ]
  /\ UNCHANGED <<root, nextNodeID, idToSpecies, hybrids, config, doc, born, running>>

\* the tree is written out, once in a run
Save ==
  /\ running
  /\ doc = <<>>
  /\ doc' = to_json
  /\ last' = [ Idle EXCEPT !.op = "to_json" ]
  /\ UNCHANGED <<nodes, root, nextNodeID, idToSpecies, hybrids, step, config, born,
                 now, running>>

\* the document, or a damaged copy of it, is read into a tree object just
\* constructed (PhylogenicTree pt; from_json(j, pt);), which is the tree in
\* use from then on: the run goes on to admit genomes to it
Load ==
  /\ running
  /\ pending
  /\ \E j \in documents(doc), junk \in Indeterminate, junk2 \in Indeterminate :
        LET pt == constructed(junk2)
            r == from_json(j, pt, junk)
        IN  /\ step' = r.step
            /\ nodes' = r.nodes
            /\ nextNodeID' = r.nextNodeID
            /\ root' = r.root
            /\ idToSpecies' = r.idToSpecies
            /\ hybrids' = r.hybrids
            /\ last' = [ Idle EXCEPT !.op = "from_json",
                                     !.outcome = IF r.ok THEN "ok" ELSE "throw",
                                     !.before = [ step |-> pt.step, root |-> pt.root,
                                                   nodes |-> pt.nodes,
                                                   nextNodeID |-> pt.nextNodeID ] ]
  /\ doc' = ReadBack
  /\ UNCHANGED <<config, born, now, running>>

\* NodeID speciesID (uint id): the value returned and the index it leaves
speciesID(id) == [ ret |-> find(idToSpecies, id), idToSpecies |-> idToSpecies ]

SpeciesID ==
  /\ running
  /\ ~pending
  /\ \E id \in 1..(born + 1) :
        /\ idToSpecies' = speciesID(id).idToSpecies
        /\ last' = [ Idle EXCEPT !.op = "speciesID", !.g.id = id,
                                 !.ret = speciesID(id).ret ]
  /\ UNCHANGED <<nodes, root, nextNodeID, hybrids, step, config, doc, born, now,
                 running>>

\* the simulation: births, deaths and time steps
Next == AddGenome \/ DelGenome \/ Step

Spec == Init /\ [][Next]_vars

\* the simulation with the tree written out and read back, under one
\* configuration
InitCodec ==
  /\ Constructed
  /\ config = [ enveloppeSize |-> 2, ignoreHybrids |-> TRUE, asserts |-> TRUE ]

NextCodec == AddGenome \/ DelGenome \/ Step \/ Save \/ Load

SpecCodec == InitCodec /\ [][NextCodec]_vars

\* the simulation with lookups of genome ids, under one configuration
NextLookup == AddGenome \/ DelGenome \/ Step \/ SpeciesID

SpecLookup == InitCodec /\ [][NextLookup]_vars

\* a simulation that only admits genomes, under one configuration
NextBirths == AddGenomeUpTo(MaxBirths)

SpecBirths == InitCodec /\ [][NextBirths]_vars

-----------------------------------------------------------------------------
(* Vocabulary of the properties *)

Ptrs == 1..Len(nodes)

\* the enveloppe of node n, empty for a node not made yet
enveloppeOf(ns, n) == IF n \in 1..Len(ns) THEN ns[n].enveloppe ELSE <<>>

\* g matches an enveloppe: the points scoring at least compatibilityThreshold
\* are at least similarityThreshold of all its points
matches(g, enveloppe) ==
  Cardinality({ i \in 1..Len(enveloppe) :
                  compatibility(g, enveloppe[i]) >= compatibilityThreshold })
    * similarityThresholdDen >= similarityThresholdNum * Len(enveloppe)

\* the sum of count over the first i nodes of a registry
RECURSIVE sumCount(_, _)
sumCount(ns, i) == IF i = 0 THEN 0 ELSE ns[i].data.count + sumCount(ns, i - 1)

\* the count of node n, 0 for a node not made yet
countOf(ns, n) == IF n \in 1..Len(ns) THEN ns[n].data.count ELSE 0

\* a callback about an enveloppe
ofEnveloppe(callback) == callback[1] \in { "enters", "leaves" }

\* the scores of g against the points of an enveloppe, in order
ownScores(g, enveloppe) ==
  [ i \in 1..Len(enveloppe) |-> compatibility(g, enveloppe[i]) ]
Live == { "addGenome", "delGenome", "step" }

\* the genome of the last event has exactly one recorded parent
oneParent(g) == (g.m = 0) # (g.f = 0)
theParent(g) == IF g.m # 0 THEN g.m ELSE g.f
bothParents(g) == g.m # 0 /\ g.f # 0

-----------------------------------------------------------------------------
(* C1: every node's enveloppe holds at most enveloppeSize genomes, in every   *)
(* state the births, deaths and steps reach.                                  *)
Inv_C1 ==
  \A n \in Ptrs : Len(nodes[n].enveloppe) <= config.enveloppeSize

\* a genome was admitted into a node whose enveloppe was already full
Wit_C1 ==
  /\ last.op = "addGenome"
  /\ last.target # 0
  /\ Len(nodes[last.target].enveloppe) = config.enveloppeSize
  /\ nodes[last.target].data.count > config.enveloppeSize

(* C2 as claimed (scenario A): the first genome admitted to a tree just       *)
(* constructed makes one new child of the root, with firstAppearance the      *)
(* current step and xmin = xmax = x, and addGenome returns that child's id.   *)
Orig_C2 ==
  [][ (last.op = "new" /\ last'.op = "addGenome") =>
        /\ last'.created
        /\ Len(nodes'[root'].children) = 1
        /\ LET c == nodes'[nodes'[root'].children[1]]
           IN  /\ last'.ret = c.id
               /\ c.data.firstAppearance = step'
               /\ c.data.xmin = last'.x
               /\ c.data.xmax = last'.x
        /\ last'.ret # nodes'[root'].id ]_vars

(* C2 as amended: the first genome admitted to a tree just constructed is     *)
(* inserted into the root, whose empty enveloppe matches it: no node is       *)
(* created, the genome is the root's only enveloppe point, the root's count   *)
(* is 1 and addGenome returns the root's id.                                  *)
Thm_C2 ==
  [][ (last.op = "new" /\ last'.op = "addGenome") =>
        /\ ~last'.created
        /\ last'.start = root'
        /\ last'.target = root'
        /\ last'.ret = nodes'[root'].id
        /\ Len(nodes') = 1
        /\ nodes'[root'].children = <<>>
        /\ nodes'[root'].enveloppe = << kept(last'.g) >>
        /\ nodes'[root'].data.count = 1
        /\ idToSpecies' = put(EmptyMap, last'.g.id, nodes'[root'].id) ]_vars

\* the first event on a tree was the admission of a genome without parents
Wit_C2 ==
  /\ last.op = "addGenome"
  /\ born = 1
  /\ now = 0
  /\ last.g.m = 0 /\ last.g.f = 0
  /\ last.ret = nodes[root].id

(* C3 as claimed: a genome with exactly one recorded parent, known to the     *)
(* index, starts its search at that parent's species node.                    *)
Orig_C3 ==
  [][ ( /\ last'.op = "addGenome"
        /\ oneParent(last'.g)
        /\ theParent(last'.g) \in DOMAIN idToSpecies ) =>
        /\ last'.start \in Ptrs
        /\ nodes[last'.start].id = idToSpecies[theParent(last'.g)] ]_vars

(* C3 as amended: a genome with exactly one recorded parent starts its search *)
(* at the root, whatever species that parent is in.                           *)
Thm_C3 ==
  [][ (last'.op = "addGenome" /\ oneParent(last'.g)) =>
        /\ last'.outcome = "ok"
        /\ last'.start = root ]_vars

\* a genome whose only parent is in a species other than the root's was
\* admitted starting at the root
Wit_C3 ==
  /\ last.op = "addGenome"
  /\ oneParent(last.g)
  /\ theParent(last.g) \in DOMAIN idToSpecies
  /\ idToSpecies[theParent(last.g)] # nodes[root].id
  /\ last.start = root

(* C4 as claimed: across births, deaths and steps whose step values never     *)
(* decrease and are never below the tree's step, no node's lastAppearance     *)
(* decreases.  (A node that no genome has reached holds no written value      *)
(* yet and is left out.)                                                      *)
Orig_C4 ==
  [][ (last'.op \in Live) =>
        \A n \in Ptrs :
          nodes[n].data.count > 0 =>
            nodes'[n].data.lastAppearance >= nodes[n].data.lastAppearance ]_vars


-----------------------------------------------------------------------------
(* The tree as seen from the root *)

\* the nodes reachable from n through children
RECURSIVE Descendants(_, _)
Descendants(ns, n) ==
  {n} \cup UNION { Descendants(ns, ns[n].children[i]) :
                     i \in 1..Len(ns[n].children) }

TreeNodes == Descendants(nodes, root)

\* what a tree is up to isomorphism: ids, parent ids, metadata, enveloppes,
\* distance tables and the children in order
RECURSIVE TreeView(_, _)
TreeView(ns, n) ==
  [ id |-> ns[n].id,
    parent |-> IF ns[n].parent = 0 THEN NoID ELSE ns[ns[n].parent].id,
    data |-> ns[n].data,
    enveloppe |-> ns[n].enveloppe,
    distances |-> ns[n].distances,
    children |-> [ i \in 1..Len(ns[n].children) |->
                     TreeView(ns, ns[n].children[i]) ] ]

\* how many times c occurs in a children list
occurrences(children, c) ==
  Cardinality({ i \in 1..Len(children) : children[i] = c })

(* C5 as claimed: for every node n reachable from the root through children,  *)
(* the registry entry at n's id (_nodes[n.id]) is n, in every state reached   *)
(* by births, deaths, steps and reading a written tree back.                  *)
Orig_C5 ==
  \A n \in TreeNodes :
     /\ nodes[n].id + 1 \in Ptrs
     /\ nodes[n].id + 1 = n

(* C6: reading back the document written from a tree gives the same step and  *)
(* an isomorphic tree: same ids, same parent/child relation and child order,  *)
(* same metadata, same enveloppes in the same order, same distance tables.    *)
Thm_C6 ==
  [][ (last'.op = "from_json" /\ last'.outcome = "ok") =>
        /\ step' = step
        /\ TreeView(nodes', root') = TreeView(nodes, root) ]_vars

\* a tree whose root has a child, two enveloppe points at different
\* coordinates and a distance entry was written and read back
Wit_C6 ==
  /\ last.op = "from_json"
  /\ last.outcome = "ok"
  /\ step = 1
  /\ Len(nodes[root].children) >= 1
  /\ Len(nodes[root].enveloppe) = 2
  /\ DOMAIN nodes[root].distances # {}
  /\ nodes[root].data.xmin # nodes[root].data.xmax

(* C7 as claimed: when reading a malformed document throws, the step, root,   *)
(* registry and next node id of the tree object the document was read into    *)
(* are what they were before the call.                                        *)
Orig_C7 ==
  (last.op = "from_json" /\ last.outcome = "throw") =>
     /\ step = last.before.step
     /\ root = last.before.root
     /\ nodes = last.before.nodes
     /\ nextNodeID = last.before.nextNodeID

Thm_C9 ==
  [][ (last'.op = "addGenome") =>
        LET g == last'.g
        IN  /\ ( /\ config.ignoreHybrids
                 /\ bothParents(g)
                 /\ idToSpecies[g.m] # idToSpecies[g.f] ) =>
                   /\ hybrids' = hybrids + 1
                   /\ last'.outcome = "ok"
                   /\ last'.start \in Ptrs
                   /\ nodes[last'.start].id = idToSpecies[g.m]
            /\ ( ~bothParents(g) \/ idToSpecies[g.m] = idToSpecies[g.f] ) =>
                   hybrids' = hybrids ]_vars

\* a hybrid whose mother is not in the root's species was admitted with
\* ignoreHybrids set
Wit_C9 ==
  /\ last.op = "addGenome"
  /\ last.outcome = "ok"
  /\ config.ignoreHybrids
  /\ bothParents(last.g)
  /\ idToSpecies[last.g.m] # idToSpecies[last.g.f]
  /\ idToSpecies[last.g.m] # nodes[root].id
  /\ last.start # root
  /\ hybrids = 1

(* C10 as claimed: with ignoreHybrids unset, admitting a genome whose parents *)
(* are in different species aborts and leaves the tree as it was: no node is  *)
(* created and no enveloppe, distance table, count or index entry changes.    *)
Orig_C10 ==
  [][ ( /\ last'.op = "addGenome"
        /\ ~config.ignoreHybrids
        /\ bothParents(last'.g)
        /\ idToSpecies[last'.g.m] # idToSpecies[last'.g.f] ) =>
        /\ last'.outcome = "abort"
        /\ nodes' = nodes
        /\ nextNodeID' = nextNodeID
        /\ idToSpecies' = idToSpecies ]_vars

Thm_C12 ==
  [][ (last'.op = "delGenome") =>
        LET id == last'.g.id
        IN  /\ Len(nodes') = Len(nodes)
            /\ \A n \in Ptrs :
                  IF id \in DOMAIN idToSpecies /\ nodes[n].id = idToSpecies[id]
                  THEN nodes'[n] = [ nodes[n] EXCEPT !.data.lastAppearance = last'.s ]
                  ELSE nodes'[n] = nodes[n]
            /\ idToSpecies' = idToSpecies
            /\ step' = step
            /\ root' = root
            /\ nextNodeID' = nextNodeID
            /\ hybrids' = hybrids ]_vars

\* the death, at step 1, of a genome of a species other than the root's
Wit_C12 ==
  /\ last.op = "delGenome"
  /\ last.s = 1
  /\ step = 0
  /\ last.g.id \in DOMAIN idToSpecies
  /\ idToSpecies[last.g.id] # nodes[root].id
  /\ \E n \in Ptrs : /\ nodes[n].id = idToSpecies[last.g.id]
                     /\ nodes[n].data.lastAppearance = 1
  /\ nodes[root].data.count > 0
  /\ nodes[root].data.lastAppearance = 0

(* C13: after an addGenome of g that returns a species id s, speciesID(g.id)  *)
(* is s, s is the id of a node of the registry, and the index entries of the  *)
(* other genome ids are as before; no birth, death or step removes an index   *)
(* entry.                                                                     *)
Thm_C13 ==
  [][ /\ DOMAIN idToSpecies \subseteq DOMAIN idToSpecies'
      /\ (last'.op = "addGenome" /\ last'.ret # NoID) =>
            /\ find(idToSpecies', last'.g.id) = last'.ret
            /\ \E n \in 1..Len(nodes') : nodes'[n].id = last'.ret
            /\ \A k \in DOMAIN idToSpecies \ { last'.g.id } :
                  idToSpecies'[k] = idToSpecies[k] ]_vars

\* a genome joined a species, other than the root's, that already had members
Wit_C13 ==
  /\ last.op = "addGenome"
  /\ last.ret # NoID
  /\ last.ret # nodes[root].id
  /\ ~last.created
  /\ find(idToSpecies, last.g.id) = last.ret
  /\ Cardinality(DOMAIN idToSpecies) = 3

(* C14: in every state births, deaths and steps reach, every key of a node's  *)
(* distance table is a pair of two distinct slot indices, both smaller than   *)
(* the size of the node's enveloppe.                                          *)
Inv_C14 ==
  \A n \in Ptrs :
     \A p \in DOMAIN nodes[n].distances :
        /\ p[1] # p[2]
        /\ p[1] \in 0..(Len(nodes[n].enveloppe) - 1)
        /\ p[2] \in 0..(Len(nodes[n].enveloppe) - 1)

\* a genome was voted on by a full enveloppe of two whose distance table has
\* an entry
Wit_C14 ==
  /\ last.op = "addGenome"
  /\ last.target # 0
  /\ config.enveloppeSize = 2
  /\ nodes[last.target].data.count = 3
  /\ Len(nodes[last.target].enveloppe) = 2
  /\ DOMAIN nodes[last.target].distances = { <<0, 1>> }

(* C15: speciesID(id) returns the species id the index holds for a known id   *)
(* and NoID for an unknown one, changes no state, and two calls in a row for  *)
(* the same id return the same value.                                         *)
Thm_C15 ==
  [][ (last'.op = "speciesID") =>
        /\ last'.outcome = "ok"
        /\ IF last'.g.id \in DOMAIN idToSpecies
           THEN last'.ret = idToSpecies[last'.g.id] /\ last'.ret # NoID
           ELSE last'.ret = NoID
        /\ UNCHANGED <<nodes, root, nextNodeID, idToSpecies, hybrids, step>>
        /\ (last.op = "speciesID" /\ last.g.id = last'.g.id) =>
              last'.ret = last.ret ]_vars

\* a lookup of an id the index does not hold, after genomes were admitted to
\* more than one species
Wit_C15 ==
  /\ last.op = "speciesID"
  /\ last.g.id \notin DOMAIN idToSpecies
  /\ last.ret = NoID
  /\ Cardinality(DOMAIN idToSpecies) >= 2
  /\ Len(nodes) >= 2

(* C16 as claimed: whenever addGenome inserts g into a node N, the vector of  *)
(* scores handed to insertInto has one entry per enveloppe point of N, in     *)
(* order, entry i being g's score against point i; hence an append records    *)
(* g's scores against N's own points as the distances of the new slot.        *)
Orig_C16 ==
  [][ (last'.op = "addGenome" /\ last'.target # 0) =>
        LET N == last'.target
            before == enveloppeOf(nodes, N)
            k == Len(before)
        IN  /\ last'.compatibilities = ownScores(last'.g, before)
            /\ (k < config.enveloppeSize) =>
                  \A i \in 0..(k - 1) :
                     nodes'[N].distances[<<i, k>>] =
                        compatibility(last'.g, before[i + 1]) ]_vars

(* C17 as claimed: when a genome is inserted into a node whose enveloppe is   *)
(* full, the candidate m is the slot with the highest incoming score (lowest  *)
(* index on ties); m is replaced by the genome iff the number of other slots  *)
(* i whose incoming score is strictly below the cached distances[(i, m)] is   *)
(* >= outperformanceThreshold * (capacity - 1); on replacement exactly the    *)
(* entries involving m are overwritten with the incoming scores, otherwise    *)
(* enveloppe and distances are unchanged.                                     *)
Orig_C17 ==
  [][ ( /\ last'.op = "addGenome"
        /\ last'.target # 0
        /\ Len(enveloppeOf(nodes, last'.target)) = config.enveloppeSize ) =>
        LET N == last'.target
            k == config.enveloppeSize
            scores == ownScores(last'.g, nodes[N].enveloppe)
            dist == nodes[N].distances
            m == CHOOSE i \in 0..(k - 1) :
                   \A j \in 0..(k - 1) :
                      /\ scores[j + 1] <= scores[i + 1]
                      /\ (j < i) => scores[j + 1] < scores[i + 1]
            votes == Cardinality({ i \in (0..(k - 1)) \ {m} :
                                     scores[i + 1] < dist[ordered_pair(i, m)] })
        IN  IF votes * outperformanceThresholdDen >=
                 outperformanceThresholdNum * (k - 1)
            THEN /\ nodes'[N].enveloppe =
                      [ nodes[N].enveloppe EXCEPT ![m + 1] = kept(last'.g) ]
                 /\ nodes'[N].distances =
                      [ p \in DOMAIN dist |->
                          IF p[1] = m THEN scores[p[2] + 1]
                          ELSE IF p[2] = m THEN scores[p[1] + 1]
                          ELSE dist[p] ]
            ELSE /\ nodes'[N].enveloppe = nodes[N].enveloppe
                 /\ nodes'[N].distances = dist ]_vars

(* C18: an admission tests the starting node first and inserts there if it    *)
(* matches; otherwise it inserts into the first, in creation order, of the    *)
(* starting node's direct children that matches, grandchildren not being      *)
(* tested; only when neither matches is a node created, appended as the last  *)
(* direct child of the starting node.                                         *)
Thm_C18 ==
  [][ (last'.op = "addGenome" /\ last'.outcome = "ok") =>
        LET S == last'.start
            g == last'.g
            children == nodes[S].children
            matching == { i \in 1..Len(children) :
                            matches(g, nodes[children[i]].enveloppe) }
        IN  IF matches(g, nodes[S].enveloppe)
            THEN /\ last'.target = S
                 /\ ~last'.created
                 /\ Len(nodes') = Len(nodes)
            ELSE IF matching # {}
            THEN /\ last'.target =
                      children[CHOOSE i \in matching : \A j \in matching : i <= j]
                 /\ ~last'.created
                 /\ Len(nodes') = Len(nodes)
            ELSE /\ last'.created
                 /\ Len(nodes') = Len(nodes) + 1
                 /\ last'.target = Len(nodes')
                 /\ nodes'[last'.target].parent = S
                 /\ nodes'[S].children = Append(children, last'.target) ]_vars

\* a species was created as the second child of the root although the genome
\* matches a grandchild of the root
Wit_C18 ==
  /\ last.op = "addGenome"
  /\ last.created
  /\ last.start = root
  /\ Len(nodes[root].children) = 2
  /\ nodes[root].children[2] = last.target
  /\ \E n \in Ptrs : /\ n # last.target
                     /\ nodes[n].parent # 0
                     /\ nodes[n].parent # root
                     /\ matches(last.g, nodes[n].enveloppe)

(* C19: matchesSpecies(g, node) is true iff the number of the node's          *)
(* enveloppe points r with min(g's compatibility at d, r's compatibility at   *)
(* d) >= compatibilityThreshold, d the distance of g and r, is at least       *)
(* similarityThreshold times the number of points; a node with no point       *)
(* matches every genome.                                                      *)
Inv_C19 ==
  \A n \in Ptrs : \A b \in Births :
     LET g == [ NoGenome EXCEPT !.t = b.t ]
         points == nodes[n].enveloppe
         yes == { i \in 1..Len(points) :
                    LET d == distance(g, points[i])
                    IN  Min(cdata(g, d), cdata(points[i], d)) >= compatibilityThreshold }
     IN  /\ matchesSpecies(g, nodes[n], <<>>).ok <=>
              ( Cardinality(yes) * similarityThresholdDen >=
                  similarityThresholdNum * Len(points) )
         /\ (points = <<>>) => matchesSpecies(g, nodes[n], <<>>).ok

\* a genome was admitted to its starting node on the votes of exactly one of
\* the node's two points, while another node rejects it
Wit_C19 ==
  /\ last.op = "addGenome"
  /\ last.target = last.start
  /\ Len(last.compatibilities) = 2
  /\ Cardinality({ i \in 1..2 : last.compatibilities[i] >= compatibilityThreshold }) = 1
  /\ \E n \in Ptrs : ~matchesSpecies(last.g, nodes[n], <<>>).ok

(* C20: when an admission replaces an enveloppe point, exactly one "leaves"   *)
(* callback, for the evicted genome, is fired and it precedes the single      *)
(* "enters" callback for the incoming genome; when the genome is appended     *)
(* only "enters" is fired; when the vote discards it no callback is fired.    *)
Thm_C20 ==
  [][ (last'.op = "addGenome" /\ last'.target # 0) =>
        LET N == last'.target
            id == nodes'[N].id
            before == enveloppeOf(nodes, N)
            after == nodes'[N].enveloppe
            fired == SelectSeq(last'.callbacks, ofEnveloppe)
        IN  IF Len(after) = Len(before) + 1
            THEN /\ after = Append(before, kept(last'.g))
                 /\ fired = << <<"enters", id, last'.g.id>> >>
            ELSE IF after # before
            THEN \E m \in 1..Len(before) :
                    /\ after = [ before EXCEPT ![m] = kept(last'.g) ]
                    /\ fired = << <<"leaves", id, before[m].id>>,
                                  <<"enters", id, last'.g.id>> >>
            ELSE fired = <<>> ]_vars

\* a full enveloppe of two voted a point out for the incoming genome
Wit_C20 ==
  /\ last.op = "addGenome"
  /\ last.target # 0
  /\ config.enveloppeSize = 2
  /\ Len(last.callbacks) = 2
  /\ last.callbacks[1][1] = "leaves"
  /\ last.callbacks[2] = <<"enters", nodes[last.target].id, last.g.id>>
  /\ nodes[last.target].data.count = 3

(* C21: an addGenome that returns a species id adds exactly 1 to the count of *)
(* the one node with that id and changes no other count; an addGenome that    *)
(* returns none, a delGenome and a step change no count; so on a tree grown   *)
(* from construction the counts sum to the number of genomes admitted, which  *)
(* is the number of genome ids in the index.                                  *)
Thm_C21 ==
  /\ [](sumCount(nodes, Len(nodes)) = Cardinality(DOMAIN idToSpecies))
  /\ [][ (last'.op \in Live) =>
           IF last'.op = "addGenome" /\ last'.ret # NoID
           THEN /\ nodes'[last'.target].id = last'.ret
                /\ \A n \in 1..Len(nodes') :
                      nodes'[n].data.count =
                        countOf(nodes, n) + (IF n = last'.target THEN 1 ELSE 0)
                /\ \A n \in 1..Len(nodes') :
                      nodes'[n].id = last'.ret => n = last'.target
           ELSE /\ Len(nodes') = Len(nodes)
                /\ \A n \in Ptrs : nodes'[n].data.count = nodes[n].data.count ]_vars

\* three genomes admitted to two species, the last one to a species that
\* already had a member, followed by a death
Wit_C21 ==
  /\ last.op = "delGenome"
  /\ last.g.id \in DOMAIN idToSpecies
  /\ Cardinality(DOMAIN idToSpecies) = 3
  /\ Len(nodes) = 2
  /\ nodes[1].data.count + nodes[2].data.count = 3
  /\ nodes[2].data.count >= 1
  /\ nodes[1].data.count >= 1

=============================================================================
